---------------------------- MODULE Spec2Model ----------------------------
(***************************************************************************)
(* A state-machine model of argos::CSpace (core/simulator/space/space.cpp) *)
(* : the entity registry, the physics-engine binder, the simulation step   *)
(* and the distribution of entities.                                       *)
(*                                                                         *)
(* Entities are named by their identifier (a string).  A position is a     *)
(* triple of integers counting half units (the value 1 stands for 0.5), so *)
(* that the grid layout, which multiplies by 0.5, stays in the integers.   *)
(***************************************************************************)
EXTENDS Integers, Sequences, FiniteSets, TLC

VARIABLES
    m_unSimulationClock,        \* CSpace::m_unSimulationClock
    m_vecEntities,              \* flat collection, in insertion order
    m_vecRootEntities,          \* the parentless entities, in insertion order
    m_vecControllableEntities,  \* the controllable entities
    m_mapEntitiesPerTypePerId,  \* type tag -> identifiers of that type
    heap,                       \* the attributes of the registered entity objects
    engineEntities,             \* physics engine -> its entity set
    binderCall,                 \* what the last AddEntityToPhysicsEngine call did
    phase,                      \* where the life of the space stands
    updatePc,                   \* position inside CSpace::Update (0: not running)
    phaseLog,                   \* the phases run by the current/last Update
    updatesSinceReset,          \* completed Update calls since the last Reset
    dist,                       \* the frame of CSpace::Distribute
    loopPass,                   \* parity of the passes its do-while loop made
    generator,                  \* a RealNumberGenerator and the calls made on it
    lookup,                     \* the last GetEntitiesByType call and its answer
    initFrame,                  \* the frame of CSpace::Init reading a tree
    tagEquipped,                \* a CTagEquippedEntity, its tags and anchors
    exception                   \* the exception that left the last operation

vars == << m_unSimulationClock, m_vecEntities, m_vecRootEntities,
           m_vecControllableEntities, m_mapEntitiesPerTypePerId, heap,
           engineEntities, binderCall, phase, updatePc, phaseLog,
           updatesSinceReset, dist, loopPass, generator, lookup, initFrame,
           tagEquipped, exception >>

-----------------------------------------------------------------------------
(* Bounds of the model. *)

\* largest 'quantity' of a distribute directive
MaxQuantity == 2

\* largest 'max_trials' of a distribute directive
MaxTrialsCfg == 1

\* largest number of arena items placed by hand
MaxManual == 2

\* Update is not started once the clock has reached this value
MaxClock == 2

(* The counters of the program (m_unSimulationClock, unTrials, i,           *)
(* m_unNumEntityPlaced) are UInt32; the bounds keep every one of them far   *)
(* below 2^32, so they are plain naturals here.                             *)

-----------------------------------------------------------------------------
(* Sequence helpers. *)

Range(s) == { s[k] : k \in 1..Len(s) }

\* std::find + erase: the first occurrence of x is taken out
RECURSIVE EraseFirst(_, _)
EraseFirst(s, x) ==
    IF s = << >> THEN << >>
    ELSE IF Head(s) = x THEN Tail(s)
    ELSE << Head(s) >> \o EraseFirst(Tail(s), x)

\* operator<<(std::ostream&, UInt64): one decimal digit
DigitChar(d) ==
    CASE d = 0 -> "0" [] d = 1 -> "1" [] d = 2 -> "2" [] d = 3 -> "3"
      [] d = 4 -> "4" [] d = 5 -> "5" [] d = 6 -> "6" [] d = 7 -> "7"
      [] d = 8 -> "8" [] d = 9 -> "9"

\* ToString(i+unBaseNum): the decimal text of a natural number
RECURSIVE DecimalToString(_)
DecimalToString(n) ==
    IF n < 10 THEN DigitChar(n)
    ELSE DecimalToString(n \div 10) \o DigitChar(n % 10)

-----------------------------------------------------------------------------
(* The entity classes.  A type tag stands for a class of entities:         *)
(*   "body"        CEmbodiedEntity (positional, with a physical body)      *)
(*   "robot"       a composable with the components body, controller, tags *)
(*   "tags"        CTagEquippedEntity, a composable owning its tags        *)
(*   "tag"         CTagEntity, positional                                  *)
(*   "light"       a positional entity without a body                      *)
(*   "controller"  CControllableEntity                                     *)
(*   "floor"       neither positional nor embodied                         *)

NoParent == ""

IsEmbodied(type) == type = "body"

IsPositional(type) == type \in {"body", "light", "tag"}

IsControllable(type) == type = "controller"

\* the components a composable creates in its Init, as <<name, type>>
Components(type) ==
    CASE type = "robot" -> << <<"body", "body">>,
                              <<"controller", "controller">>,
                              <<"tags", "tags">> >>
      [] type = "tags"  -> << <<"tag_0", "tag">> >>
      [] OTHER          -> << >>

IsComposable(type) == type \in {"robot", "tags"}

HasComponent(type, name) ==
    \E k \in 1..Len(Components(type)) : Components(type)[k][1] = name

\* GetContext() + GetId() of a component
ComponentId(parentId, name) == parentId \o "." \o name

\* GetEmbodiedEntity: the identifier of the embodied entity of an entity of
\* this type, or NoParent (NULL) when there is none
GetEmbodiedEntity(id, type) ==
    IF IsEmbodied(type) THEN id
    ELSE IF IsComposable(type) /\ HasComponent(type, "body")
         THEN ComponentId(id, "body")
    ELSE NoParent

\* Every entity is taken for a positional one.
GetPositionalEntity_Self(id, type) == id

\* GetPositionalEntity: likewise for the positional entity
GetPositionalEntity(id, type) ==
    IF IsPositional(type) THEN id
    ELSE IF IsComposable(type) /\ HasComponent(type, "position")
         THEN ComponentId(id, "position")
    ELSE NoParent

-----------------------------------------------------------------------------
(* The physics engines of the simulator. *)

\* *m_ptPhysicsEngines, in the order of the vector
PhysicsEngines == << "dyn_a", "dyn_b" >>

EngineIds == Range(PhysicsEngines)

\* CPhysicsEngine::IsPointContained: dyn_a simulates x <= 0.5 and dyn_b
\* simulates 0.5 <= x <= 1.5, so the two domains overlap at x = 0.5
IsPointContained(engine, pos) ==
    CASE engine = "dyn_a" -> pos[1] <= 1
      [] engine = "dyn_b" -> pos[1] >= 1 /\ pos[1] <= 3


-----------------------------------------------------------------------------
(* Errors.  THROW_ARGOSEXCEPTION builds a message; the model keeps what the *)
(* message is made of: the kind of the error, the identifier it prints, the *)
(* text it prints for the engines and the number it prints.                 *)

NoError == [kind |-> "none", id |-> "", engines |-> "", count |-> 0]

Error(kind, id, engines) ==
    [kind |-> kind, id |-> id, engines |-> engines, count |-> 0]

\* an error whose message reports a number
ErrorCount(kind, id, count) ==
    [kind |-> kind, id |-> id, engines |-> "", count |-> count]

\* what operator<< prints for the std::ostringstream object ossEngines: the
\* stream is not a string, the build prints the value of its conversion to a
\* pointer, which is an address of the stack and never a quoted identifier
StreamTexts == { "0x7ffc4a5be3d0", "0x7ffe91c02a88" }

NoBinderCall ==
    [called |-> FALSE, entity |-> "", root |-> "", pos |-> << >>,
     movable |-> FALSE, potential |-> << >>,
     before |-> [e \in EngineIds |-> {}], after |-> [e \in EngineIds |-> {}],
     error |-> NoError]

-----------------------------------------------------------------------------
(* The space as a value: the operations below are functions from a space to *)
(* a space; 'err' is the exception in flight, 'addr' the text the build     *)
(* prints for a stream object.                                              *)

SpaceNow(addr) ==
    [vecEntities |-> m_vecEntities,
     vecRoots    |-> m_vecRootEntities,
     vecControllable |-> m_vecControllableEntities,
     map    |-> m_mapEntitiesPerTypePerId,
     heap   |-> heap,
     eng    |-> engineEntities,
     binder |-> NoBinderCall,
     err    |-> NoError,
     addr   |-> addr]

\* The entity handed to the binder is taken for the root.
RootOf_Self(h, id) == id

\* while(pcToAdd->HasParent()) pcToAdd = &pcToAdd->GetParent();
RECURSIVE RootOf(_, _)
RootOf(h, id) ==
    IF h[id].parent = NoParent THEN id ELSE RootOf(h, h[id].parent)

\* the engines that could house the entity, in the order of the vector
PotentialEngines(pos) ==
    SelectSeq(PhysicsEngines, LAMBDA e : IsPointContained(e, pos))

\* the text accumulated in ossEngines: "e1", "e2", ...
RECURSIVE OssEngines(_)
OssEngines(vec) ==
    IF Len(vec) = 1 THEN "\"" \o vec[1] \o "\""
    ELSE OssEngines(SubSeq(vec, 1, Len(vec) - 1))
             \o ", \"" \o vec[Len(vec)] \o "\""

\* CPhysicsEngine::AddEntity on each engine of 'chosen'
AddToEngines(eng, chosen, root) ==
    [e \in EngineIds |-> IF e \in chosen THEN eng[e] \cup {root} ELSE eng[e]]

\* A movable entity is added to every matching engine.
HouseEntity_AllEngines(eng, root, name, movable, vec, addr) ==
    IF vec = << >>
    THEN [eng |-> eng, err |-> Error("NoHousingEngine", root, "")]
    ELSE [eng |-> AddToEngines(eng, Range(vec), root), err |-> NoError]

\* An entity that no engine can house is silently left out of every engine.
HouseEntity_NoBombOut(eng, root, name, movable, vec, addr) ==
    IF vec = << >> \/ ~movable
    THEN [eng |-> AddToEngines(eng, Range(vec), root), err |-> NoError]
    ELSE IF Len(vec) = 1
    THEN [eng |-> AddToEngines(eng, {vec[1]}, root), err |-> NoError]
    ELSE [eng |-> eng, err |-> Error("AmbiguousEngine", name, addr)]

\* A conflicting movable entity is left in the first matching engine.
HouseEntity_AddThenBombOut(eng, root, name, movable, vec, addr) ==
    IF vec = << >>
    THEN [eng |-> eng, err |-> Error("NoHousingEngine", root, "")]
    ELSE IF ~movable
    THEN [eng |-> AddToEngines(eng, Range(vec), root), err |-> NoError]
    ELSE IF Len(vec) = 1
    THEN [eng |-> AddToEngines(eng, {vec[1]}, root), err |-> NoError]
    ELSE [eng |-> AddToEngines(eng, {vec[1]}, root),
          err |-> Error("AmbiguousEngine", name, addr)]

\* A movable entity goes to the last engine of the vector, not to the match.
HouseEntity_WrongEngine(eng, root, name, movable, vec, addr) ==
    IF vec = << >>
    THEN [eng |-> eng, err |-> Error("NoHousingEngine", root, "")]
    ELSE IF ~movable
    THEN [eng |-> AddToEngines(eng, Range(vec), root), err |-> NoError]
    ELSE IF Len(vec) = 1
    THEN [eng |-> AddToEngines(eng, {PhysicsEngines[Len(PhysicsEngines)]}, root),
          err |-> NoError]
    ELSE [eng |-> eng, err |-> Error("AmbiguousEngine", name, addr)]

\* An immovable entity goes to the first matching engine only.
HouseEntity_FirstOnly(eng, root, name, movable, vec, addr) ==
    IF vec = << >>
    THEN [eng |-> eng, err |-> Error("NoHousingEngine", root, "")]
    ELSE IF ~movable \/ Len(vec) = 1
    THEN [eng |-> AddToEngines(eng, {vec[1]}, root), err |-> NoError]
    ELSE [eng |-> eng, err |-> Error("AmbiguousEngine", name, addr)]

\* The decision of AddEntityToPhysicsEngine, once the root (pcToAdd) and the
\* potential engines are known: the new entity sets and the exception.
\* 'name' is c_entity.GetId(), 'addr' what the build prints for ossEngines.
HouseEntity(eng, root, name, movable, vec, addr) ==
    IF vec = << >>
    THEN [eng |-> eng, err |-> Error("NoHousingEngine", root, "")]
    ELSE IF ~movable
    THEN [eng |-> AddToEngines(eng, Range(vec), root), err |-> NoError]
    ELSE IF Len(vec) = 1
    THEN [eng |-> AddToEngines(eng, {vec[1]}, root), err |-> NoError]
    ELSE [eng |-> eng, err |-> Error("AmbiguousEngine", name, addr)]

\* CSpace::AddEntityToPhysicsEngine(c_entity), c_entity being entity 'id'
AddEntityToPhysicsEngine(s, id) ==
    LET pcToAdd == RootOf(s.heap, id)
        cPos    == s.heap[id].pos
        vecPotentialEngines == PotentialEngines(cPos)
        out     == HouseEntity(s.eng, pcToAdd, s.heap[id].name,
                               s.heap[id].movable, vecPotentialEngines, s.addr)
    IN  [s EXCEPT !.eng = out.eng,
                  !.err = out.err,
                  !.binder = [called |-> TRUE, entity |-> id, root |-> pcToAdd,
                              pos |-> cPos, movable |-> s.heap[id].movable,
                              potential |-> vecPotentialEngines,
                              before |-> s.eng, after |-> out.eng,
                              error |-> out.err]]

-----------------------------------------------------------------------------
(* The registry. *)

\* CSpace::AddControllableEntity
AddControllableEntity(s, id) ==
    [s EXCEPT !.vecControllable = Append(@, id)]

\* CSpace::RemoveControllableEntity
RemoveControllableEntity(s, id) ==
    [s EXCEPT !.vecControllable = EraseFirst(@, id)]

\* CSpace::AddEntity: the entity enters the flat collection, the type/ID
\* mapping and, when it has no parent, the root collection; an identifier
\* names one entity only
AddEntity(s, id, attrs) ==
    IF id \in DOMAIN s.heap
    THEN [s EXCEPT !.err = Error("DuplicateId", id, "")]
    ELSE [s EXCEPT
            !.vecRoots = IF attrs.parent = NoParent THEN Append(@, id) ELSE @,
            !.vecEntities = Append(@, id),
            !.map = [t \in DOMAIN @ \cup {attrs.type} |->
                        IF t = attrs.type
                        THEN (IF t \in DOMAIN @ THEN @[t] ELSE {}) \cup {id}
                        ELSE @[t]],
            !.heap = @ @@ (id :> attrs)]

\* The entity stays in the type/ID mapping.
RemoveEntity_KeepInMap(s, id) ==
    [s EXCEPT
        !.vecRoots = IF s.heap[id].parent = NoParent THEN EraseFirst(@, id) ELSE @,
        !.vecEntities = EraseFirst(@, id),
        !.heap = [x \in DOMAIN @ \ {id} |-> @[x]]]

\* CSpace::RemoveEntity: the inverse of AddEntity; the tag stays registered
RemoveEntity(s, id) ==
    [s EXCEPT
        !.vecRoots = IF s.heap[id].parent = NoParent THEN EraseFirst(@, id) ELSE @,
        !.vecEntities = EraseFirst(@, id),
        !.map = [@ EXCEPT ![s.heap[id].type] = @ \ {id}],
        !.heap = [x \in DOMAIN @ \ {id} |-> @[x]]]

\* no lookup has been made
NoLookup == [type |-> "", found |-> {}, err |-> NoError]

\* The sub-mapping is reached with operator[], which enters a missing tag.
GetEntitiesByType_Subscript(map, str_type) ==
    IF str_type \in DOMAIN map
    THEN [map |-> map, found |-> map[str_type], err |-> NoError]
    ELSE [map |-> [t \in DOMAIN map \cup {str_type} |->
                      IF t = str_type THEN {} ELSE map[t]],
          found |-> {}, err |-> NoError]

\* CSpace::GetEntitiesByType: the mapping after the call, the sub-mapping
\* returned (its keys) and the exception thrown
GetEntitiesByType(map, str_type) ==
    IF str_type \in DOMAIN map
    THEN [map |-> map, found |-> map[str_type], err |-> NoError]
    ELSE [map |-> map, found |-> {}, err |-> Error("TypeNotFound", str_type, "")]

\* the registered components of an entity, in the order of their creation
ChildrenOf(s, id) ==
    SelectSeq(s.vecEntities, LAMBDA c : s.heap[c].parent = id)

\* CPhysicsEngine::RemoveEntity on every engine that houses the root
RemoveFromEngines(s, id) ==
    LET root == RootOf(s.heap, id)
    IN  [s EXCEPT !.eng = [e \in EngineIds |-> @[e] \ {root}]]

RECURSIVE AddEntityOperation(_, _, _, _, _, _, _)
RECURSIVE AddComponents(_, _, _, _, _, _)
RECURSIVE RemoveEntityOperation(_, _)
RECURSIVE RemoveComponents(_, _)

\* what stands for the position of an entity that has none (a composable, a
\* controller): only a positional or an embodied entity has GetPosition()
NoPosition == << >>

\* CallEntityOperation<CSpaceOperationAddEntity>: the entity is added, an
\* embodied entity is then handed to the binder, a controllable entity is
\* entered in the controllable collection, and a composable has its
\* components added after itself.  An exception stops the operation where
\* it is raised.
AddEntityOperation(s, id, name, type, parent, pos, movable) ==
    LET s1 == AddEntity(s, id, [name |-> name, type |-> type, parent |-> parent,
                                pos |-> IF IsEmbodied(type) \/ IsPositional(type)
                                        THEN pos ELSE NoPosition,
                                movable |-> movable])
        s2 == IF s1.err # NoError THEN s1
              ELSE IF IsEmbodied(type) THEN AddEntityToPhysicsEngine(s1, id)
              ELSE IF IsControllable(type) THEN AddControllableEntity(s1, id)
              ELSE s1
    IN  IF s2.err # NoError THEN s2
        ELSE AddComponents(s2, id, Components(type), 1, pos, movable)

AddComponents(s, id, comps, k, pos, movable) ==
    IF k > Len(comps) \/ s.err # NoError THEN s
    ELSE AddComponents(
             AddEntityOperation(s, ComponentId(id, comps[k][1]), comps[k][1],
                                comps[k][2], id, pos, movable),
             id, comps, k + 1, pos, movable)

\* The components are left where they are.
RemoveComponents_None(s, children) == s

\* CallEntityOperation<CSpaceOperationRemoveEntity>: the components go
\* first, an embodied entity leaves its engines, a controllable entity
\* leaves the controllable collection, then the entity leaves the registry
RemoveEntityOperation(s, id) ==
    LET s1 == RemoveComponents(s, ChildrenOf(s, id))
        s2 == IF IsEmbodied(s1.heap[id].type) THEN RemoveFromEngines(s1, id)
              ELSE IF IsControllable(s1.heap[id].type)
                   THEN RemoveControllableEntity(s1, id)
              ELSE s1
    IN  RemoveEntity(s2, id)

RemoveComponents(s, children) ==
    IF children = << >> THEN s
    ELSE RemoveComponents(RemoveEntityOperation(s, Head(children)),
                          Tail(children))

\* The controllable entities are dropped and await a new registration.
ResetEntities_DropControllables(s) == [s EXCEPT !.vecControllable = << >>]

\* m_vecEntities[i]->Reset() for every i: each entity goes back, in place,
\* to the state its configuration gave it, which is what the heap holds
ResetEntities(s) == s

-----------------------------------------------------------------------------
(* The random placement generators.  A generator is a record; a call gives  *)
(* the set of its possible outcomes, each with the value returned, the      *)
(* generator after the call and the exception raised, if any.               *)

\* the coordinates a random draw can return, per axis (half units)
Coordinates == << {-3, -1, 1, 3, 5}, {0}, {0, 1} >>

Zero3 == << 0, 0, 0 >>

ConstantGenerator(value) == [method |-> "constant", value |-> value]

UniformGenerator(min, max) == [method |-> "uniform", min |-> min, max |-> max]

GaussianGenerator(mean, stdDev) ==
    [method |-> "gaussian", mean |-> mean, stdDev |-> stdDev]

GridGenerator(center, layout, distances) ==
    [method |-> "grid", center |-> center, layout |-> layout,
     distances |-> distances, placed |-> 0]

\* Only the x components are compared.
VecLeq_FirstAxis(a, b) == a[1] <= b[1]

\* CVector3::operator<= : every component is less than or equal
VecLeq(a, b) == a[1] <= b[1] /\ a[2] <= b[2] /\ a[3] <= b[3]

\* CreateGenerator: the exception of the construction, or NoError
CreateGenerator(gen) ==
    IF gen.method = "uniform" /\ ~VecLeq(gen.min, gen.max)
    THEN Error("UniformMinMax", "", "")
    ELSE IF gen.method = "grid"
            /\ (gen.layout[1] = 0 \/ gen.layout[2] = 0 \/ gen.layout[3] = 0)
    THEN Error("GridLayout", "", "")
    ELSE IF gen.method \notin {"uniform", "gaussian", "constant", "grid"}
    THEN Error("UnknownMethod", "", "")
    ELSE NoError

\* CRNG::Uniform(CRange(min, max)) on one axis, or the fixed max
UniformAxis(gen, k) ==
    IF gen.max[k] > gen.min[k]
    THEN { c \in Coordinates[k] : gen.min[k] <= c /\ c <= gen.max[k] }
    ELSE { gen.max[k] }

\* CRNG::Gaussian(std_dev, mean) on one axis
GaussianAxis(gen, k) ==
    IF gen.stdDev[k] = 0 THEN { gen.mean[k] } ELSE Coordinates[k]

\* The grid is walked from its low corner upwards.
GridCell_FromLowCorner(gen) ==
    LET n == gen.placed
        L == gen.layout
    IN  << gen.center[1] - ((L[1] - 1) * gen.distances[1]) \div 2
               + (n % L[1]) * gen.distances[1],
           gen.center[2] - ((L[2] - 1) * gen.distances[2]) \div 2
               + ((n \div L[1]) % L[2]) * gen.distances[2],
           gen.center[3] - ((L[3] - 1) * gen.distances[3]) \div 2
               + (n \div (L[1] * L[2])) * gen.distances[3] >>

\* the cell of the grid for the current value of m_unNumEntityPlaced
GridCell(gen) ==
    LET n == gen.placed
        L == gen.layout
    IN  << gen.center[1] + ((L[1] - 1) * gen.distances[1]) \div 2
               - (n % L[1]) * gen.distances[1],
           gen.center[2] + ((L[2] - 1) * gen.distances[2]) \div 2
               - ((n \div L[1]) % L[2]) * gen.distances[2],
           gen.center[3] + ((L[3] - 1) * gen.distances[3]) \div 2
               - (n \div (L[1] * L[2])) * gen.distances[3] >>

Outcome(value, gen, err) == [value |-> value, gen |-> gen, err |-> err]

\* The grid answers a retry like any other call.
Generate_GridRetries(gen, b_is_retry) ==
    CASE gen.method = "constant" -> { Outcome(gen.value, gen, NoError) }
      [] gen.method = "uniform" ->
            { Outcome(<<x, y, z>>, gen, NoError) :
                  x \in UniformAxis(gen, 1), y \in UniformAxis(gen, 2),
                  z \in UniformAxis(gen, 3) }
      [] gen.method = "gaussian" ->
            { Outcome(<<x, y, z>>, gen, NoError) :
                  x \in GaussianAxis(gen, 1), y \in GaussianAxis(gen, 2),
                  z \in GaussianAxis(gen, 3) }
      [] gen.method = "grid" ->
            IF gen.placed < gen.layout[1] * gen.layout[2] * gen.layout[3]
            THEN { Outcome(GridCell(gen),
                           [gen EXCEPT !.placed = @ + 1],
                           NoError) }
            ELSE { Outcome(Zero3, gen, Error("GridExhausted", "", "")) }

\* RealNumberGenerator::operator()(b_is_retry)
Generate(gen, b_is_retry) ==
    CASE gen.method = "constant" -> { Outcome(gen.value, gen, NoError) }
      [] gen.method = "uniform" ->
            { Outcome(<<x, y, z>>, gen, NoError) :
                  x \in UniformAxis(gen, 1), y \in UniformAxis(gen, 2),
                  z \in UniformAxis(gen, 3) }
      [] gen.method = "gaussian" ->
            { Outcome(<<x, y, z>>, gen, NoError) :
                  x \in GaussianAxis(gen, 1), y \in GaussianAxis(gen, 2),
                  z \in GaussianAxis(gen, 3) }
      [] gen.method = "grid" ->
            IF b_is_retry
            THEN { Outcome(Zero3, gen, ErrorCount("GridRetry", "", gen.placed)) }
            ELSE IF gen.placed < gen.layout[1] * gen.layout[2] * gen.layout[3]
            THEN { Outcome(GridCell(gen),
                           [gen EXCEPT !.placed = @ + 1],
                           NoError) }
            ELSE { Outcome(Zero3, gen, Error("GridExhausted", "", "")) }

\* no generator has been created
NoGenerator ==
    [pc |-> "none", node |-> ConstantGenerator(Zero3),
     gen |-> ConstantGenerator(Zero3), error |-> NoError,
     calls |-> << >>, retry |-> << >>]

-----------------------------------------------------------------------------
(* The configuration tree: what the arena items and the distribute          *)
(* directive are drawn from.  The tree holds one directive.                 *)

\* the entity classes an arena item or a directive can name
Templates == { "body", "robot", "light", "floor" }

Item(id, type, pos, movable) ==
    [id |-> id, type |-> type, pos |-> pos, movable |-> movable]

\* the arena items placed by hand; "b1" is also an identifier that a
\* directive with the base identifier "b" produces
ArenaItems ==
    { Item("a",  "robot", <<-1, 0, 0>>, TRUE),     \* a robot in dyn_a
      Item("a",  "body",  << 1, 0, 0>>, FALSE),    \* a wall in both engines
      Item("a",  "body",  << 5, 0, 0>>, FALSE),    \* a wall no engine houses
      Item("a",  "floor", Zero3,        FALSE),
      Item("b1", "body",  << 3, 0, 0>>, TRUE),     \* a ball in dyn_b
      Item("b1", "robot", << 1, 0, 0>>, TRUE),     \* a robot on the overlap
      Item("b1", "light", <<-1, 0, 0>>, FALSE) }

BaseIds == { "b" }

\* values of 'base_num': the default, and one that makes the suffix grow
\* from one digit to two
BaseNums == { 0, 9 }

\* <position> of a directive
\*   a fixed place inside dyn_a alone, a fixed place outside every engine,
\*   a draw over dyn_a alone, the overlap of the engines and dyn_b alone,
\*   a uniform generator whose min exceeds its max, a grid of two cells
\*   inside dyn_a (x = -0.5 and x = -1.5), and a grid of one cell
PositionGenerators ==
    { ConstantGenerator(<<-1, 0, 0>>),
      ConstantGenerator(<<5, 0, 0>>),
      UniformGenerator(<<-1, 0, 0>>, <<3, 0, 0>>),
      UniformGenerator(<<3, 0, 0>>, <<-1, 0, 0>>),
      UniformGenerator(<<-1, 0, 1>>, <<3, 0, 0>>),
      GridGenerator(<<-2, 0, 0>>, <<2, 1, 1>>, <<2, 0, 0>>),
      GridGenerator(<<3, 0, 0>>, <<1, 1, 1>>, <<2, 0, 0>>) }

\* <orientation> of a directive: a draw around the z axis
OrientationGenerators ==
    { GaussianGenerator(Zero3, <<0, 0, 1>>),
      UniformGenerator(<<0, 1, 0>>, Zero3) }

\* an entity of a class that is not embodied is not movable
Movability(type) ==
    IF type \in {"body", "robot"} THEN BOOLEAN ELSE {FALSE}

-----------------------------------------------------------------------------
(* The frame of CSpace::Distribute: its parameters, its locals and, for the *)
(* properties, a record of what the call has done so far.                   *)

IdleFrame ==
    [pc |-> "idle",
     posGen |-> ConstantGenerator(Zero3), oriGen |-> ConstantGenerator(Zero3),
     unQuantity |-> 0, unMaxTrials |-> 0, unBaseNum |-> 0,
     strBaseId |-> "", type |-> "", movable |-> FALSE,
     i |-> 0, unTrials |-> 0, bRetry |-> FALSE,
     error |-> NoError,
     before |-> {}, accepted |-> << >>, rejections |-> 0, log |-> << >>]

\* strBaseId + ToString(i+unBaseNum)
ProgressiveId(strBaseId, i, unBaseNum) ==
    strBaseId \o DecimalToString(i + unBaseNum)

\* the body of an entity of the registry, or NoParent
BodyOf(s, id) == GetEmbodiedEntity(id, s.heap[id].type)

\* two bodies simulated by a common engine occupy the same place
Overlaps(s, root, pos) ==
    \E e \in EngineIds : \E other \in s.eng[e] \ {root} :
        /\ root \in s.eng[e]
        /\ BodyOf(s, other) \in DOMAIN s.heap
        /\ s.heap[BodyOf(s, other)].pos = pos

\* CEmbodiedEntity::IsCollidingWithSomething: overlapping bodies collide; a
\* body that overlaps no other body may still collide with something the
\* engine alone knows (a wall, the boundary of the engine)
IsCollidingWithSomething(s, root, pos) ==
    IF Overlaps(s, root, pos) THEN {TRUE} ELSE BOOLEAN

\* CSpace::Init has not been given a tree
NoInitFrame ==
    [pc |-> "idle", tree |-> << >>, itArenaItem |-> 1, calling |-> FALSE,
     log |-> << >>]

\* no tag-equipped entity has been constructed
NoTagEquipped ==
    [pc |-> "none", enabled |-> FALSE, m_vecInstances |-> << >>,
     anchors |-> << >>, op |-> "", before |-> << >>]

-----------------------------------------------------------------------------
(* The state after construction (CSpace::CSpace) and the actions. *)

Init ==
    /\ m_unSimulationClock = 0
    /\ m_vecEntities = << >>
    /\ m_vecRootEntities = << >>
    /\ m_vecControllableEntities = << >>
    /\ m_mapEntitiesPerTypePerId = [t \in {} |-> {}]
    /\ heap = [x \in {} |-> {}]
    /\ engineEntities = [e \in EngineIds |-> {}]
    /\ binderCall = NoBinderCall
    /\ phase = "init_manual"
    /\ updatePc = 0
    /\ phaseLog = << >>
    /\ updatesSinceReset = 0
    /\ dist = IdleFrame
    /\ loopPass = 0
    /\ generator = NoGenerator
    /\ lookup = NoLookup
    /\ initFrame = NoInitFrame
    /\ tagEquipped = NoTagEquipped
    /\ exception = NoError

\* the registry and the engines become those of the space value s
SetSpace(s) ==
    /\ m_vecEntities' = s.vecEntities
    /\ m_vecRootEntities' = s.vecRoots
    /\ m_vecControllableEntities' = s.vecControllable
    /\ m_mapEntitiesPerTypePerId' = s.map
    /\ heap' = s.heap
    /\ engineEntities' = s.eng
    /\ binderCall' = s.binder

SpaceUnchanged ==
    UNCHANGED << m_vecEntities, m_vecRootEntities, m_vecControllableEntities,
                 m_mapEntitiesPerTypePerId, heap, engineEntities >>

StepUnchanged ==
    UNCHANGED << m_unSimulationClock, updatePc, phaseLog, updatesSinceReset,
                 generator, lookup, initFrame, tagEquipped >>

\* CSpace::Init, first loop: an arena item that is not a directive is
\* created, initialized and added to the space
PlaceEntity ==
    /\ phase = "init_manual"
    /\ Len(m_vecRootEntities) < MaxManual
    /\ \E item \in ArenaItems, addr \in StreamTexts :
          LET s == AddEntityOperation(SpaceNow(addr), item.id, item.id,
                                      item.type, NoParent, item.pos,
                                      item.movable)
          IN  /\ SetSpace(s)
              /\ exception' = s.err
              /\ phase' = IF s.err = NoError THEN phase ELSE "failed"
    /\ StepUnchanged
    /\ UNCHANGED << dist, loopPass >>

\* CSpace::Init: the first loop is over, the second one starts
EndManual ==
    /\ phase = "init_manual"
    /\ phase' = "init_distribute"
    /\ binderCall' = NoBinderCall
    /\ SpaceUnchanged
    /\ StepUnchanged
    /\ UNCHANGED << dist, loopPass, exception >>

\* the largest value of a UInt32 (max_trials, unTrials), 2^32 - 1.  The
\* integers of the model end at 2^31 - 1, so the value is written as the
\* signed reading of its 32 bits and compared as unsigned below.
UInt32Max == -1

\* a > b on UInt32 values
UInt32Greater(a, b) ==
    IF b = UInt32Max THEN FALSE
    ELSE IF a = UInt32Max THEN TRUE
    ELSE a > b

\* CSpace::Distribute up to the loop: the generators are created and the
\* attributes of the directive are read; the directive is one of those
\* made of the given generators, quantities, values of max_trials, base
\* identifiers and entity classes
DistributeBeginOf(pgs, qs, trials, bids, types) ==
    /\ phase = "init_distribute"
    /\ dist.pc = "idle"
    /\ \E pg \in pgs, og \in OrientationGenerators,
          q \in qs, mt \in trials, bn \in BaseNums,
          bid \in bids, type \in types :
       \E movable \in Movability(type) :
          LET e1  == CreateGenerator(pg)
              err == IF e1 # NoError THEN e1 ELSE CreateGenerator(og)
          IN  IF err # NoError
              THEN /\ dist' = [IdleFrame EXCEPT
                                  !.pc = "failed", !.error = err,
                                  !.posGen = pg, !.oriGen = og,
                                  !.unQuantity = q, !.type = type,
                                  !.movable = movable,
                                  !.before = Range(m_vecEntities)]
                   /\ exception' = err
                   /\ phase' = "failed"
              ELSE /\ dist' = [IdleFrame EXCEPT
                                  !.pc = IF 0 < q THEN "loop" ELSE "returned",
                                  !.posGen = pg, !.oriGen = og,
                                  !.unQuantity = q, !.unMaxTrials = mt,
                                  !.unBaseNum = bn, !.strBaseId = bid,
                                  !.type = type, !.movable = movable,
                                  !.before = Range(m_vecEntities)]
                   /\ exception' = NoError
                   /\ phase' = phase
    /\ loopPass' = 0
    /\ binderCall' = NoBinderCall
    /\ SpaceUnchanged
    /\ StepUnchanged

\* a directive of the tree, whose max_trials is one of 'trials'
DistributeBeginWith(trials) ==
    DistributeBeginOf(PositionGenerators, 0..MaxQuantity, trials, BaseIds,
                      Templates)

\* a directive whose max_trials is a small number
DistributeBegin == DistributeBeginWith(0..MaxTrialsCfg)

\* a directive whose max_trials is a small number or the largest UInt32
DistributeBeginAnyTrials ==
    DistributeBeginWith((0..MaxTrialsCfg) \cup {UInt32Max})

\* the frame after an exception left the loop
Failed(frame, err) == [frame EXCEPT !.pc = "failed", !.error = err]

\* the record of the passes made for the copy being placed
\* (the last MaxTrialsCfg + 1 of them: a copy of a directive with a small
\* max_trials has no more)
Logged(frame, id, result) ==
    LET all == Append(SelectSeq(frame.log, LAMBDA r : r.copy = frame.i),
                      [copy |-> frame.i, retry |-> frame.bRetry,
                       built |-> id, result |-> result])
    IN  [frame EXCEPT
            !.log = IF Len(all) > MaxTrialsCfg + 1 THEN Tail(all) ELSE all]

\* The counter is left as it is.
IncreaseTrials_Stuck(unTrials) == unTrials

\* ++unTrials.  The counter is kept exactly up to MaxTrialsCfg + 1, which
\* a directive with a small max_trials never passes; beyond that, where
\* max_trials is UInt32Max and no value of the counter exceeds it (the
\* counter wraps to 0 after 2^32 - 1), MaxTrialsCfg + 1 stands for every
\* value of the counter.
IncreaseTrials(unTrials) ==
    IF unTrials <= MaxTrialsCfg THEN unTrials + 1 ELSE unTrials

\* the rejections of the directive, counted up to one: the properties ask
\* whether a copy was ever rejected
CountRejection(n) == IF n = 0 THEN 1 ELSE n

\* The trial counter is compared with >= : one trial too few.
TooManyTrials_Early(unTrials, unMaxTrials) == unTrials >= unMaxTrials

\* The trial counter is never found too large.
TooManyTrials_Never(unTrials, unMaxTrials) == FALSE

\* if(unTrials > unMaxTrials)
TooManyTrials(unTrials, unMaxTrials) == UInt32Greater(unTrials, unMaxTrials)

\* "I managed to place only " << i << " objects."
PlacedOnly(i) == i

\* The suffix forgets the base number.
EntityId_NoBaseNum(strBaseId, i, unBaseNum) == ProgressiveId(strBaseId, i, 0)

\* SetNodeAttribute(tEntityTree, "id", strBaseId + ToString(i+unBaseNum))
EntityId(strBaseId, i, unBaseNum) == ProgressiveId(strBaseId, i, unBaseNum)

\* The colliding entity is left in the space.
Discard_Keep(s, id) == s

\* "Get rid of the entity": CallEntityOperation<CSpaceOperationRemoveEntity>
Discard(s, id) == RemoveEntityOperation(s, id)

\* One pass of the do-while loop of CSpace::Distribute for copy i: the
\* entity is built with a drawn position and orientation, added and, when
\* it is embodied, checked for collisions.
\*   f: the frame after the generators were called, id: the identifier
\*   of the entity, s0: the space before the pass, added: the space after
\*   CallEntityOperation<CSpaceOperationAddEntity>, collides: the answer of
\*   IsCollidingWithSomething
\* The result is the frame and the space after the pass.
TrialOutcome(f, id, s0, added, collides) ==
    LET pcEmbodiedEntity   == GetEmbodiedEntity(id, f.type)
        pcPositionalEntity == GetPositionalEntity(id, f.type)
    IN  IF pcEmbodiedEntity = NoParent /\ pcPositionalEntity = NoParent
        THEN [frame |-> Failed(Logged(f, id, "error"),
                               Error("CannotDistribute", f.type, "")),
              space |-> s0]
        ELSE IF added.err # NoError
        THEN [frame |-> Failed(Logged(f, id, "error"), added.err),
              space |-> added]
        ELSE IF pcEmbodiedEntity = NoParent
        THEN \* positional: the entity is added, bDone stays false
             [frame |-> Logged(f, id, "added"), space |-> added]
        ELSE IF collides
        THEN LET unTrials == IncreaseTrials(f.unTrials)
                 g == [Logged(f, id, "rejected") EXCEPT
                          !.bRetry = TRUE, !.unTrials = unTrials,
                          !.rejections = CountRejection(@)]
             IN  [frame |-> IF TooManyTrials(unTrials, f.unMaxTrials)
                            THEN Failed(g, ErrorCount("MaxTrialsExceeded",
                                                      f.strBaseId,
                                                      PlacedOnly(f.i)))
                            ELSE g,
                  space |-> Discard(added, id)]
        ELSE LET i == f.i + 1
             IN  [frame |-> [Logged(f, id, "accepted") EXCEPT
                                !.accepted = Append(@, id),
                                !.i = i, !.unTrials = 0, !.bRetry = FALSE,
                                !.pc = IF i < f.unQuantity THEN "loop"
                                       ELSE "returned"],
                  space |-> added]

\* what the engine may answer for the entity once it is in the space
CollisionAnswers(f, id, pos, added) ==
    IF GetEmbodiedEntity(id, f.type) # NoParent /\ added.err = NoError
    THEN IsCollidingWithSomething(added, id, pos)
    ELSE {FALSE}

DistributeTrial ==
    /\ phase = "init_distribute"
    /\ dist.pc = "loop"
    /\ \E addr \in StreamTexts :
       \E po \in Generate(dist.posGen, dist.bRetry) :
       \* the orientation is drawn after the position; its value is not kept
       \E oo \in (IF po.err = NoError
                  THEN { [gen |-> o.gen, err |-> o.err] :
                             o \in Generate(dist.oriGen, dist.bRetry) }
                  ELSE { [gen |-> dist.oriGen, err |-> NoError] }) :
          LET id == EntityId(dist.strBaseId, dist.i, dist.unBaseNum)
              f  == [dist EXCEPT !.posGen = po.gen, !.oriGen = oo.gen]
              genErr == IF po.err # NoError THEN po.err ELSE oo.err
              s0 == SpaceNow(addr)
              added == AddEntityOperation(s0, id, id, f.type, NoParent,
                                          po.value, f.movable)
          IN  IF genErr # NoError
              THEN /\ dist' = Failed(Logged(f, id, "error"), genErr)
                   /\ exception' = genErr
                   /\ phase' = "failed"
                   /\ SetSpace(s0)
              ELSE \E collides \in CollisionAnswers(f, id, po.value, added) :
                      LET out == TrialOutcome(f, id, s0, added, collides)
                      IN  /\ dist' = out.frame
                          /\ exception' = out.frame.error
                          /\ phase' = IF out.frame.pc = "failed"
                                      THEN "failed" ELSE phase
                          /\ SetSpace(out.space)
    /\ loopPass' = 1 - loopPass
    /\ StepUnchanged

\* CSpace::Init returns: the frame of the last directive is gone
EndInit ==
    /\ phase = "init_distribute"
    /\ dist.pc \in {"idle", "returned"}
    /\ phase' = "running"
    /\ dist' = IdleFrame
    /\ loopPass' = 0
    /\ binderCall' = NoBinderCall
    /\ SpaceUnchanged
    /\ StepUnchanged
    /\ UNCHANGED exception

-----------------------------------------------------------------------------
(* The simulation step. *)

\* The physics engines are updated before the controllers act.
UpdatePhases_PhysicsFirst ==
    << "IncreaseSimulationClock", "UpdatePhysics",
       "UpdateControllableEntitiesAct", "UpdateMedia", "PreStep",
       "UpdateControllableEntitiesSenseStep", "PostStep" >>

\* the calls of CSpace::Update, in the order of its statements
UpdatePhases ==
    << "IncreaseSimulationClock", "UpdateControllableEntitiesAct",
       "UpdatePhysics", "UpdateMedia", "PreStep",
       "UpdateControllableEntitiesSenseStep", "PostStep" >>

\* CSpace::IncreaseSimulationClock(1)
IncreaseSimulationClock(clock) == clock + 1

\* CSpace::Update, one call of its body at a time: updatePc counts the
\* calls already made; a call returns before the next one is made
UpdateStep ==
    /\ phase = "running"
    /\ updatePc = 0 => m_unSimulationClock < MaxClock
    /\ LET call == UpdatePhases[updatePc + 1]
           last == updatePc + 1 = Len(UpdatePhases)
       IN  /\ phaseLog' = IF updatePc = 0 THEN << call >>
                          ELSE Append(phaseLog, call)
           /\ m_unSimulationClock' =
                  IF call = "IncreaseSimulationClock"
                  THEN IncreaseSimulationClock(m_unSimulationClock)
                  ELSE m_unSimulationClock
           /\ updatePc' = IF last THEN 0 ELSE updatePc + 1
           /\ updatesSinceReset' = IF last THEN updatesSinceReset + 1
                                   ELSE updatesSinceReset
    /\ binderCall' = NoBinderCall
    /\ SpaceUnchanged
    /\ UNCHANGED << phase, dist, loopPass, generator, lookup, initFrame,
                    tagEquipped, exception >>

\* CSpace::Reset: the clock is zeroed and every entity is reset in place
Reset ==
    /\ phase = "running"
    /\ updatePc = 0
    /\ m_unSimulationClock' = 0
    /\ updatesSinceReset' = 0
    /\ SetSpace(ResetEntities(SpaceNow("")))
    /\ UNCHANGED << phase, updatePc, phaseLog, dist, loopPass, generator, lookup,
                    initFrame, tagEquipped,
                    exception >>

\* CallEntityOperation<CSpaceOperationRemoveEntity> on a root entity, as
\* the loop functions do between two steps
RemoveRoot ==
    /\ phase = "running"
    /\ updatePc = 0
    /\ \E root \in Range(m_vecRootEntities) :
          SetSpace(RemoveEntityOperation(SpaceNow(""), root))
    /\ StepUnchanged
    /\ UNCHANGED << phase, dist, loopPass, exception >>

\* One pass is made instead of a loop.
RemoveAllRoots_OnePass(s) ==
    IF s.vecRoots = << >> THEN s
    ELSE RemoveEntityOperation(s, s.vecRoots[Len(s.vecRoots)])

\* while(!m_vecRootEntities.empty()) remove m_vecRootEntities.back()
RECURSIVE RemoveAllRoots(_)
RemoveAllRoots(s) ==
    IF s.vecRoots = << >> THEN s
    ELSE RemoveAllRoots(RemoveEntityOperation(s, s.vecRoots[Len(s.vecRoots)]))

\* CSpace::Destroy, after Init returned or threw
Destroy ==
    /\ phase \in {"running", "failed"}
    /\ updatePc = 0
    /\ SetSpace(RemoveAllRoots(SpaceNow("")))
    /\ phase' = "destroyed"
    /\ dist' = IdleFrame
    /\ loopPass' = 0
    /\ exception' = NoError
    /\ StepUnchanged

Next ==
    \/ PlaceEntity
    \/ EndManual
    \/ DistributeBegin
    \/ DistributeTrial
    \/ EndInit
    \/ UpdateStep
    \/ Reset
    \/ RemoveRoot
    \/ Destroy

Spec == Init /\ [][Next]_vars

\* CSpace::Init alone, with a directive of any max_trials.  Distribute runs
\* to completion in the one thread of the simulator: while its do-while
\* loop is not over, the next pass is made (every pass is a DistributeTrial
\* step, the only step that changes loopPass inside the loop).
NextInit ==
    \/ PlaceEntity
    \/ EndManual
    \/ DistributeBeginAnyTrials
    \/ DistributeTrial
    \/ EndInit

\* the do-while loop of Distribute is about to make a pass
LoopPass ==
    /\ phase = "init_distribute"
    /\ dist.pc = "loop"
    /\ loopPass' = 1 - loopPass

InitSpec == Init /\ [][NextInit]_vars /\ WF_loopPass(LoopPass)

-----------------------------------------------------------------------------
(* CSpace::Init reading a tree whose items, placed by hand or distributed,  *)
(* stand in any order.                                                      *)

\* largest number of items of the arena
MaxTreeItems == 3

\* <distribute> with its position generator, quantity, base id and class
Directive(pg, q, bid, type) ==
    [distribute |-> TRUE, posGen |-> pg, quantity |-> q, strBaseId |-> bid,
     type |-> type]

\* an item that is not a directive
Manual(item) == [distribute |-> FALSE, item |-> item]

\* the children of the arena node
TreeNodes ==
    { Manual(Item("a",  "body", << 1, 0, 0>>, FALSE)),
      Manual(Item("b1", "body", << 3, 0, 0>>, TRUE)),
      Directive(UniformGenerator(<<-1, 0, 0>>, <<3, 0, 0>>), 1, "b", "body"),
      Directive(ConstantGenerator(<<3, 0, 0>>), 1, "c", "body") }

RECURSIVE Trees(_)
Trees(n) ==
    IF n = 0 THEN { << >> }
    ELSE LET shorter == Trees(n - 1)
         IN  shorter \cup { Append(t, node) : t \in shorter, node \in TreeNodes }

\* Every item is handled by the loop that meets it first.
HandledInLoop_DocumentOrder(loop, node) == loop = "manual"

\* the test of each of the two loops of CSpace::Init on an item:
\* Value() != "distribute" in the first, Value() == "distribute" in the second
HandledInLoop(loop, node) ==
    IF loop = "manual" THEN ~node.distribute ELSE node.distribute

TreeUnchanged ==
    UNCHANGED << m_unSimulationClock, updatePc, phaseLog, updatesSinceReset,
                 loopPass, generator, lookup, tagEquipped >>

\* CSpace::Init(t_tree) is called
InitCall ==
    /\ phase = "init_manual"
    /\ initFrame.pc = "idle"
    /\ \E tree \in Trees(MaxTreeItems) \ { << >> } :
          initFrame' = [NoInitFrame EXCEPT !.pc = "manual", !.tree = tree]
    /\ SpaceUnchanged
    /\ TreeUnchanged
    /\ UNCHANGED << binderCall, phase, dist, exception >>

\* one turn of a loop of CSpace::Init: the item under the iterator is passed
\* over, or created and added to the space, or handed to Distribute
InitStep ==
    /\ initFrame.pc \in {"manual", "distribute"}
    /\ ~initFrame.calling
    /\ initFrame.itArenaItem <= Len(initFrame.tree)
    /\ LET node == initFrame.tree[initFrame.itArenaItem]
           next == [initFrame EXCEPT !.itArenaItem = @ + 1]
           here == [initFrame EXCEPT !.log = Append(@, initFrame.itArenaItem)]
       IN  IF ~HandledInLoop(initFrame.pc, node)
           THEN /\ initFrame' = next
                /\ SpaceUnchanged
                /\ UNCHANGED << binderCall, phase, exception >>
           ELSE IF node.distribute
           THEN /\ initFrame' = [here EXCEPT !.calling = TRUE]
                /\ phase' = "init_distribute"
                /\ SpaceUnchanged
                /\ UNCHANGED << binderCall, exception >>
           ELSE \E addr \in StreamTexts :
                   LET s == AddEntityOperation(SpaceNow(addr), node.item.id,
                                               node.item.id, node.item.type,
                                               NoParent, node.item.pos,
                                               node.item.movable)
                   IN  /\ SetSpace(s)
                       /\ exception' = s.err
                       /\ phase' = IF s.err = NoError THEN phase ELSE "failed"
                       /\ initFrame' =
                              IF s.err = NoError
                              THEN [here EXCEPT !.itArenaItem = @ + 1]
                              ELSE [here EXCEPT !.pc = "failed"]
    /\ TreeUnchanged
    /\ UNCHANGED dist

\* the first loop is over: the iterator goes back to the first item
InitSecondLoop ==
    /\ initFrame.pc = "manual"
    /\ initFrame.itArenaItem > Len(initFrame.tree)
    /\ initFrame' = [initFrame EXCEPT !.pc = "distribute", !.itArenaItem = 1]
    /\ phase' = "init_distribute"
    /\ binderCall' = NoBinderCall
    /\ SpaceUnchanged
    /\ TreeUnchanged
    /\ UNCHANGED << dist, exception >>

\* Distribute(*itArenaItem)
DistributeNode ==
    /\ initFrame.calling
    /\ LET node == initFrame.tree[initFrame.itArenaItem]
       IN  DistributeBeginOf({node.posGen}, {node.quantity}, {MaxTrialsCfg},
                             {node.strBaseId}, {node.type})

\* Distribute returns to the loop
DistributeReturn ==
    /\ initFrame.calling
    /\ dist.pc = "returned"
    /\ dist' = IdleFrame
    /\ initFrame' = [initFrame EXCEPT !.calling = FALSE, !.itArenaItem = @ + 1]
    /\ binderCall' = NoBinderCall
    /\ SpaceUnchanged
    /\ TreeUnchanged
    /\ UNCHANGED << phase, exception >>

\* the second loop is over: CSpace::Init returns
InitReturn ==
    /\ initFrame.pc = "distribute"
    /\ ~initFrame.calling
    /\ initFrame.itArenaItem > Len(initFrame.tree)
    /\ initFrame' = [initFrame EXCEPT !.pc = "done"]
    /\ phase' = "running"
    /\ binderCall' = NoBinderCall
    /\ SpaceUnchanged
    /\ TreeUnchanged
    /\ UNCHANGED << dist, exception >>

NextTree ==
    \/ InitCall
    \/ InitStep
    \/ InitSecondLoop
    \/ DistributeNode
    \/ DistributeTrial
    \/ DistributeReturn
    \/ InitReturn

TreeSpec == Init /\ [][NextTree]_vars

-----------------------------------------------------------------------------
(* CTagEquippedEntity (plugins/simulator/entities/tag_equipped_entity.cpp): *)
(* tags attached to anchors of the body of the parent, each with a fixed    *)
(* offset.  A pose is a position and an orientation; the orientations are   *)
(* the quarter turns about the z axis, counted 0..3.                        *)

\* largest number of <tag> nodes of the entity
MaxTags == 2

Pose(pos, ori) == [pos |-> pos, ori |-> ori]

\* CVector3::Rotate by a quaternion that is q quarter turns about z
Rotate(v, q) ==
    CASE q = 0 -> v
      [] q = 1 -> << -v[2], v[1], v[3] >>
      [] q = 2 -> << -v[1], -v[2], v[3] >>
      [] q = 3 -> << v[2], -v[1], v[3] >>

\* the anchors of the body of the parent
AnchorIds == { "origin", "arm" }

\* the poses the physics engine gives an anchor
AnchorPoses == { Pose(Zero3, 0), Pose(<< 2, 0, 0 >>, 1) }

\* <tag position=... orientation=... anchor=...>
TagNodes ==
    { [anchor |-> a, PositionOffset |-> << 1, 0, 0 >>, OrientationOffset |-> o] :
          a \in AnchorIds, o \in { 0, 1 } }

RECURSIVE TagTrees(_)
TagTrees(n) ==
    IF n = 0 THEN { << >> }
    ELSE LET shorter == TagTrees(n - 1)
         IN  shorter \cup { Append(t, node) : t \in shorter, node \in TagNodes }

\* the pose of the tag of an instance in the global frame:
\* the offset rotated by the orientation of the anchor, plus its position
TagPose(s_instance, anchor) ==
    Pose([k \in 1..3 |-> Rotate(s_instance.PositionOffset, anchor.ori)[k]
                            + anchor.pos[k]],
         (anchor.ori + s_instance.OrientationOffset) % 4)

\* The tags are moved while their anchor is enabled.
UpdateComponents_AnchorGated(te) ==
    [te EXCEPT !.m_vecInstances =
        [i \in 1..Len(te.m_vecInstances) |->
            LET s_instance == te.m_vecInstances[i]
            IN  IF te.anchors[s_instance.anchor].enabled
                THEN [s_instance EXCEPT
                         !.pose = TagPose(s_instance,
                                          te.anchors[s_instance.anchor].pose)]
                ELSE s_instance]]

\* CTagEquippedEntity::UpdateComponents
UpdateComponents(te) ==
    [te EXCEPT !.m_vecInstances =
        [i \in 1..Len(te.m_vecInstances) |->
            LET s_instance == te.m_vecInstances[i]
            IN  IF s_instance.tagEnabled
                THEN [s_instance EXCEPT
                         !.pose = TagPose(s_instance,
                                          te.anchors[s_instance.anchor].pose)]
                ELSE s_instance]]

\* the poses of the tags, in the order of the instances
TagPoses(te) == [i \in 1..Len(te.m_vecInstances) |-> te.m_vecInstances[i].pose]

\* s_instance.Anchor.Enable() / Disable() for every instance
SetAnchors(te, enabled) ==
    [te EXCEPT !.anchors =
        [a \in AnchorIds |->
            IF \E i \in 1..Len(te.m_vecInstances) : te.m_vecInstances[i].anchor = a
            THEN [@[a] EXCEPT !.enabled = enabled]
            ELSE @[a]]]

TagUnchanged ==
    UNCHANGED << m_unSimulationClock, m_vecEntities, m_vecRootEntities,
                 m_vecControllableEntities, m_mapEntitiesPerTypePerId, heap,
                 engineEntities, binderCall, phase, updatePc, phaseLog,
                 updatesSinceReset, dist, loopPass, generator, lookup,
                 initFrame, exception >>

\* the constructor (which calls Disable on an entity without instances) and
\* CTagEquippedEntity::Init: a tag is created for every <tag> node, enabled
\* as every new entity and with the pose its node gives it, and
\* UpdateComponents is called
TagEquippedInit ==
    /\ tagEquipped.pc = "none"
    /\ \E t_tree \in TagTrees(MaxTags) \ { << >> } :
       \E anchors \in [AnchorIds -> [enabled : BOOLEAN, pose : AnchorPoses]] :
          LET made == [NoTagEquipped EXCEPT
                          !.pc = "ready",
                          !.anchors = anchors,
                          !.m_vecInstances =
                              [i \in 1..Len(t_tree) |->
                                  [tagEnabled |-> TRUE,
                                   pose |-> Pose(t_tree[i].PositionOffset,
                                                 t_tree[i].OrientationOffset),
                                   anchor |-> t_tree[i].anchor,
                                   PositionOffset |-> t_tree[i].PositionOffset,
                                   OrientationOffset |-> t_tree[i].OrientationOffset]]]
          IN  tagEquipped' = [UpdateComponents(made) EXCEPT
                                 !.op = "Init", !.before = TagPoses(made)]
    /\ TagUnchanged

\* CTagEquippedEntity::Enable / Disable
SetEnabled ==
    /\ tagEquipped.pc = "ready"
    /\ \E enabled \in BOOLEAN :
          tagEquipped' = [SetAnchors(tagEquipped, enabled) EXCEPT
                             !.enabled = enabled,
                             !.op = IF enabled THEN "Enable" ELSE "Disable",
                             !.before = TagPoses(tagEquipped)]
    /\ TagUnchanged

\* GetTag(un_index).Enable() / Disable(): the flag of one tag
SetTagEnabled ==
    /\ tagEquipped.pc = "ready"
    /\ \E i \in 1..Len(tagEquipped.m_vecInstances), enabled \in BOOLEAN :
          tagEquipped' = [tagEquipped EXCEPT
                             !.m_vecInstances[i].tagEnabled = enabled,
                             !.op = "SetTagEnabled",
                             !.before = TagPoses(tagEquipped)]
    /\ TagUnchanged

\* the physics engine recomputes the pose of an enabled anchor
AnchorUpdate ==
    /\ tagEquipped.pc = "ready"
    /\ \E a \in AnchorIds, pose \in AnchorPoses :
          /\ tagEquipped.anchors[a].enabled
          /\ tagEquipped' = [tagEquipped EXCEPT
                                !.anchors[a].pose = pose,
                                !.op = "AnchorUpdate",
                                !.before = TagPoses(tagEquipped)]
    /\ TagUnchanged

\* CTagEquippedEntity::UpdateComponents, called by the parent at every step
UpdateComponentsCall ==
    /\ tagEquipped.pc = "ready"
    /\ tagEquipped' = [UpdateComponents(tagEquipped) EXCEPT
                           !.op = "UpdateComponents",
                           !.before = TagPoses(tagEquipped)]
    /\ TagUnchanged

NextTag ==
    \/ TagEquippedInit
    \/ SetEnabled
    \/ SetTagEnabled
    \/ AnchorUpdate
    \/ UpdateComponentsCall

TagSpec == Init /\ [][NextTag]_vars

-----------------------------------------------------------------------------
(* The lookups of the registry, made by the loop functions and the          *)
(* controllers once the arena items are placed.                             *)

\* the type tags a lookup asks for: those of the entity classes and their
\* components, and one no entity has
TypeTags ==
    { "robot", "body", "light", "floor", "controller", "tags", "tag", "box" }

\* CSpace::GetEntitiesByType(str_type)
GetEntitiesByTypeCall ==
    /\ phase = "running"
    /\ updatePc = 0
    /\ \E str_type \in TypeTags :
          LET r == GetEntitiesByType(m_mapEntitiesPerTypePerId, str_type)
          IN  /\ m_mapEntitiesPerTypePerId' = r.map
              /\ lookup' = [type |-> str_type, found |-> r.found, err |-> r.err]
              /\ exception' = r.err
    /\ UNCHANGED << m_unSimulationClock, m_vecEntities, m_vecRootEntities,
                    m_vecControllableEntities, heap, engineEntities,
                    binderCall, phase, updatePc, phaseLog, updatesSinceReset,
                    dist, loopPass, generator, initFrame, tagEquipped >>

\* the arena items are placed by hand, entities are removed and looked up
NextLookup ==
    \/ PlaceEntity
    \/ EndManual
    \/ EndInit
    \/ RemoveRoot
    \/ GetEntitiesByTypeCall

LookupSpec == Init /\ [][NextLookup]_vars

-----------------------------------------------------------------------------
(* A generator on its own: it is created from a node of the configuration  *)
(* tree and called, as Distribute does with the two it creates.            *)

\* largest value of a 'layout' attribute
MaxLayout == 2

\* the <position> and <orientation> nodes a generator is created from
GeneratorNodes ==
    { GridGenerator(c, << lx, ly, lz >>, d) :
          c \in { Zero3, << -2, 0, 2 >> },
          lx \in 0..MaxLayout, ly \in 0..MaxLayout, lz \in 0..MaxLayout,
          d \in { << 2, 0, 0 >>, << 2, 4, 2 >> } }
    \cup { UniformGenerator(min, max) :
              min \in { << -1, 0, 0 >>, << 1, 0, 0 >>, << -1, 0, 1 >> },
              max \in { << -1, 0, 0 >>, << 1, 0, 0 >>, << -1, 0, 1 >>,
                        << 3, 0, 1 >> } }
    \cup { ConstantGenerator(<< 1, 0, 0 >>),
           GaussianGenerator(<< 1, 0, 0 >>, << 2, 0, 0 >>),
           [method |-> "spiral"] }

\* the number of calls with b_is_retry = false made on the generator:
\* a grid is called until it has refused once, another generator twice
MoreCalls(g) ==
    IF g.gen.method = "grid"
    THEN Len(g.calls) <= g.gen.layout[1] * g.gen.layout[2] * g.gen.layout[3]
    ELSE Len(g.calls) < 2

\* CreateGenerator(t_tree)
CreateGeneratorCall ==
    /\ generator.pc = "none"
    /\ \E node \in GeneratorNodes :
          LET err == CreateGenerator(node)
          IN  generator' = [NoGenerator EXCEPT
                               !.pc = IF err = NoError THEN "created"
                                      ELSE "failed",
                               !.node = node, !.gen = node, !.error = err]
    /\ UNCHANGED << m_unSimulationClock, m_vecEntities, m_vecRootEntities,
                    m_vecControllableEntities, m_mapEntitiesPerTypePerId,
                    heap, engineEntities, binderCall, phase, updatePc,
                    phaseLog, updatesSinceReset, dist, loopPass, lookup,
                    initFrame, tagEquipped,
                    exception >>

\* pcGenerator->operator()(b_is_retry): calls records the answers to the calls with
\* b_is_retry = false, retry the answers to the last call with
\* b_is_retry = true and the value of the counter before it
GenerateCall ==
    /\ generator.pc = "created"
    /\ \E b_is_retry \in BOOLEAN :
       \E o \in Generate(generator.gen, b_is_retry) :
          IF b_is_retry
          THEN generator' = [generator EXCEPT
                                !.gen = o.gen,
                                !.retry = << [value |-> o.value,
                                              err |-> o.err,
                                              before |-> generator.gen] >>]
          ELSE /\ MoreCalls(generator)
               /\ generator' = [generator EXCEPT
                                    !.gen = o.gen,
                                    !.calls = Append(@, [value |-> o.value,
                                                         err |-> o.err])]
    /\ UNCHANGED << m_unSimulationClock, m_vecEntities, m_vecRootEntities,
                    m_vecControllableEntities, m_mapEntitiesPerTypePerId,
                    heap, engineEntities, binderCall, phase, updatePc,
                    phaseLog, updatesSinceReset, dist, loopPass, lookup,
                    initFrame, tagEquipped,
                    exception >>

NextGenerator ==
    \/ CreateGeneratorCall
    \/ GenerateCall

GeneratorSpec == Init /\ [][NextGenerator]_vars

-----------------------------------------------------------------------------
(* Vocabulary of the properties. *)

\* the engines whose entity set holds the entity
HousingEngines(root) == { e \in EngineIds : root \in engineEntities[e] }

\* the engines whose domain contains the position
MatchingEngines(pos) == { e \in EngineIds : IsPointContained(e, pos) }

\* the last operation called the binder for a movable / an immovable entity
BinderCalledMovable == binderCall.called /\ binderCall.movable

BinderCalledImmovable == binderCall.called /\ ~binderCall.movable

\* the root handed to the binder is still registered, i.e. the operation
\* that called the binder did not remove the entity afterwards
BinderRootKept == binderCall.root \in DOMAIN heap

\* the directive distributes an embodied template
DistEmbodied == dist.type \in {"body", "robot"}

DistOver == dist.pc \in {"returned", "failed"}

\* the root entities registered since the directive began, in order
NewRoots == SelectSeq(m_vecRootEntities, LAMBDA r : r \notin dist.before)

\* the entities registered since the directive began
NewEntities == Range(m_vecEntities) \ dist.before

\* the directive distributes a template that is positional, not embodied
DistPositionalOnly ==
    /\ dist.type # ""
    /\ GetEmbodiedEntity("x", dist.type) = NoParent
    /\ GetPositionalEntity("x", dist.type) # NoParent

\* the directive distributes a template that is neither positional nor
\* embodied and has no such component
DistNeither ==
    /\ dist.type # ""
    /\ ~IsEmbodied(dist.type) /\ ~IsPositional(dist.type)
    /\ ~HasComponent(dist.type, "body")
    /\ ~HasComponent(dist.type, "position")

\* the passes of the loop made for copy i with the given result
Passes(i, result) ==
    SelectSeq(dist.log, LAMBDA r : r.copy = i /\ r.result = result)

-----------------------------------------------------------------------------
(* C1: after any sequence of additions, distributions and removals, the    *)
(* root of every movable embodied entity is in the entity set of at most   *)
(* one physics engine; the root of an immovable one may be in several, but *)
(* only in engines whose domain contains the position of the entity.       *)
C1_MovableInAtMostOneEngine ==
    \A id \in DOMAIN heap :
        IsEmbodied(heap[id].type) =>
            LET housing == HousingEngines(RootOf(heap, id))
            IN  /\ heap[id].movable => Cardinality(housing) <= 1
                /\ ~heap[id].movable => housing \subseteq MatchingEngines(heap[id].pos)

\* a movable entity housed by one engine next to an immovable one housed by
\* two, after a distribution
C1_Witness ==
    /\ dist.pc = "returned"
    /\ \E id \in DOMAIN heap :
          /\ IsEmbodied(heap[id].type) /\ heap[id].movable
          /\ Cardinality(HousingEngines(RootOf(heap, id))) = 1
    /\ \E id \in DOMAIN heap :
          /\ IsEmbodied(heap[id].type) /\ ~heap[id].movable
          /\ Cardinality(HousingEngines(RootOf(heap, id))) = 2

(* C2: within one call of Update the phases run once each, in the order    *)
(* clock, act, physics, media, pre-step, sense, post-step, each after the  *)
(* previous one has completed; and after n calls of Update following a     *)
(* Reset the clock equals n.                                               *)
C2_UpdatePhasesInOrder ==
    LET StepOrder ==
            << "IncreaseSimulationClock", "UpdateControllableEntitiesAct",
               "UpdatePhysics", "UpdateMedia", "PreStep",
               "UpdateControllableEntitiesSenseStep", "PostStep" >>
    IN  /\ Len(phaseLog) <= Len(StepOrder)
        /\ phaseLog = SubSeq(StepOrder, 1, Len(phaseLog))
        /\ updatePc # 0 => /\ Len(phaseLog) = updatePc
                           /\ m_unSimulationClock = updatesSinceReset + 1
        /\ updatePc = 0 => /\ phaseLog \in {<< >>, StepOrder}
                           /\ m_unSimulationClock = updatesSinceReset

\* two calls of Update have returned since the last Reset
C2_Witness ==
    /\ updatePc = 0
    /\ Len(phaseLog) = 7
    /\ phaseLog[7] = "PostStep"
    /\ updatesSinceReset = 2
    /\ m_unSimulationClock = 2

(* C3: the binder called on a movable entity whose position lies in the    *)
(* domains of two or more engines fails with the ambiguity error and has   *)
(* modified no engine's entity set: the entity is in none of them.         *)
C3_AmbiguousLeavesEnginesAlone ==
    (BinderCalledMovable /\ Len(binderCall.potential) >= 2) =>
        /\ binderCall.error.kind = "AmbiguousEngine"
        /\ exception = binderCall.error
        /\ binderCall.after = binderCall.before
        /\ engineEntities = binderCall.before
        /\ HousingEngines(binderCall.root) = {}

C3_Witness ==
    /\ BinderCalledMovable
    /\ Len(binderCall.potential) = 2
    /\ binderCall.error.kind = "AmbiguousEngine"

(* C4: the binder called on a movable entity whose position lies in the    *)
(* domain of exactly one engine succeeds, and the root of the entity is    *)
(* then in the entity set of that engine and of no other engine.           *)
C4_MovableSingleMatch ==
    (BinderCalledMovable /\ Len(binderCall.potential) = 1) =>
        /\ binderCall.error = NoError
        /\ \A e \in EngineIds :
              binderCall.root \in binderCall.after[e]
                  <=> e = binderCall.potential[1]
        /\ \A e \in EngineIds :
              binderCall.after[e] \ {binderCall.root} = binderCall.before[e]
        /\ BinderRootKept =>
              /\ engineEntities = binderCall.after
              /\ HousingEngines(binderCall.root) = {binderCall.potential[1]}

\* a movable component of a robot was housed by dyn_b alone and kept
C4_Witness ==
    /\ BinderCalledMovable
    /\ binderCall.potential = << "dyn_b" >>
    /\ binderCall.entity # binderCall.root
    /\ BinderRootKept
    /\ HousingEngines(binderCall.root) = {"dyn_b"}

(* C5: the binder called on an immovable entity whose position lies in the *)
(* domain of at least one engine succeeds and adds the root to every       *)
(* engine whose domain contains the position and to no other engine.       *)
C5_ImmovableEveryMatch ==
    (BinderCalledImmovable /\ Len(binderCall.potential) >= 1) =>
        /\ binderCall.error = NoError
        /\ \A e \in EngineIds :
              binderCall.after[e] =
                  IF IsPointContained(e, binderCall.pos)
                  THEN binderCall.before[e] \cup {binderCall.root}
                  ELSE binderCall.before[e]
        /\ BinderRootKept =>
              /\ engineEntities = binderCall.after
              /\ HousingEngines(binderCall.root) = MatchingEngines(binderCall.pos)

\* an immovable entity on the overlap of the two domains is in both engines
C5_Witness ==
    /\ BinderCalledImmovable
    /\ Len(binderCall.potential) = 2
    /\ BinderRootKept
    /\ HousingEngines(binderCall.root) = EngineIds

(* C6: the binder called on an entity, movable or not, whose position lies *)
(* in no engine's domain fails with the no-housing error and modifies no   *)
(* engine's entity set.                                                    *)
C6_NoHousingLeavesEnginesAlone ==
    (binderCall.called /\ binderCall.potential = << >>) =>
        /\ binderCall.error.kind = "NoHousingEngine"
        /\ exception = binderCall.error
        /\ binderCall.after = binderCall.before
        /\ engineEntities = binderCall.before

C6_Witness ==
    /\ binderCall.called
    /\ binderCall.movable
    /\ binderCall.potential = << >>
    /\ binderCall.error.kind = "NoHousingEngine"
    /\ \E e \in EngineIds : engineEntities[e] # {}

(* C7: the errors of the binder carry the identifier of the entity being   *)
(* placed, and the ambiguity error carries the identifiers of all engines  *)
(* whose domain contains the position of the entity, and only those.       *)
C7_ErrorsNameEntityAndEngines ==
    (binderCall.called /\ binderCall.error # NoError) =>
        /\ binderCall.error.id \in
              { binderCall.root, heap[binderCall.entity].name }
        /\ binderCall.error.kind = "AmbiguousEngine" =>
              binderCall.error.engines = OssEngines(binderCall.potential)

(* C8, as stated: when Distribute is run with quantity = N for an embodied *)
(* template and no built entity ever collides, it succeeds for any         *)
(* max_trials, adds exactly N new entities to the registry, and their      *)
(* identifiers are base_id followed by the decimal of i + base_num for     *)
(* i = 0..N-1, pairwise distinct, placed in increasing order of i: the new *)
(* root entities are the copies, each with nothing but its own components  *)
(* next to it.                                                             *)
C8_NoCollisionPlacesAll ==
    LET DecimalText(n) ==
            CASE n = 0 -> "0" [] n = 1 -> "1" [] n = 2 -> "2" [] n = 3 -> "3"
              [] n = 4 -> "4" [] n = 9 -> "9" [] n = 10 -> "10"
              [] n = 11 -> "11" [] n = 12 -> "12" [] n = 13 -> "13"
        ExpectedId(i) == dist.strBaseId \o DecimalText(i + dist.unBaseNum)
    IN  (DistOver /\ DistEmbodied /\ dist.rejections = 0) =>
            /\ dist.pc = "returned"
            /\ exception = NoError
            /\ Len(NewRoots) = dist.unQuantity
            /\ \A k \in 1..Len(NewRoots) : NewRoots[k] = ExpectedId(k - 1)
            /\ Cardinality(Range(NewRoots)) = dist.unQuantity
            /\ dist.accepted = NewRoots
            /\ \A id \in NewEntities : RootOf(heap, id) \in Range(NewRoots)

(* C8, amended: the statement of C8 holds provided also that the           *)
(* generators are valid and no generator call fails (a grid has a cell for *)
(* every copy), and that every built entity can be added to the space      *)
(* (some engine houses the drawn position, one engine only if the body is  *)
(* movable, and the identifier is not registered yet).                     *)
C8_NoCollisionNoErrorPlacesAll ==
    dist.error.kind \notin {"UniformMinMax", "GridExhausted",
                            "NoHousingEngine", "AmbiguousEngine",
                            "DuplicateId"}
        => C8_NoCollisionPlacesAll

\* two copies of a robot placed without a collision, with max_trials = 0
\* and a base number that takes the suffix from "9" to "10"
C8_Witness ==
    /\ dist.pc = "returned"
    /\ dist.type = "robot"
    /\ dist.unQuantity = 2
    /\ dist.unMaxTrials = 0
    /\ dist.unBaseNum = 9
    /\ dist.rejections = 0
    /\ NewRoots = << "b9", "b10" >>

(* C9: when Distribute fails with MaxTrialsExceededError, the entities of  *)
(* the directive that are in the registry, and in a physics engine, are    *)
(* exactly the copies accepted before the failure, their number is the     *)
(* count reported in the error, and the entity of the last rejected        *)
(* attempt is in neither the registry nor any physics engine.              *)
C9_FailureKeepsAcceptedOnly ==
    dist.error.kind = "MaxTrialsExceeded" =>
        LET rejected == dist.log[Len(dist.log)].built
        IN  /\ dist.pc = "failed"
            /\ NewRoots = dist.accepted
            /\ Len(dist.accepted) = dist.error.count
            /\ \A id \in NewEntities : RootOf(heap, id) \in Range(dist.accepted)
            /\ \A r \in Range(dist.accepted) : HousingEngines(r) # {}
            /\ rejected \notin Range(dist.accepted)
            /\ rejected \notin DOMAIN heap
            /\ GetEmbodiedEntity(rejected, dist.type) \notin DOMAIN heap
            /\ HousingEngines(rejected) = {}

\* the second copy was rejected for good after the first one was accepted
C9_Witness ==
    /\ dist.error.kind = "MaxTrialsExceeded"
    /\ dist.error.count = 1
    /\ Len(dist.accepted) = 1
    /\ dist.type = "robot"

C11_PositionalAcceptedOnce ==
    DistPositionalOnly =>
        /\ dist.rejections = 0
        /\ dist.pc = "loop" => Passes(dist.i, "added") = << >>
        /\ dist.pc = "returned" => Len(NewRoots) = dist.unQuantity

C13_NeitherCannotDistribute ==
    (DistNeither /\ dist.pc # "idle") =>
        /\ NewEntities = {}
        /\ Len(dist.log) <= 1
        /\ dist.pc = "returned" => dist.unQuantity = 0
        /\ dist.log # << >> =>
              /\ dist.pc = "failed"
              /\ dist.error.kind = "CannotDistribute"
              /\ exception = dist.error
              /\ dist.log[1].copy = 0
              /\ dist.log[1].built \notin DOMAIN heap
              /\ HousingEngines(dist.log[1].built) = {}

\* a directive of two floors failed on its first pass, in a space that
\* holds a manually placed entity
C13_Witness ==
    /\ DistNeither
    /\ dist.unQuantity = 2
    /\ dist.error.kind = "CannotDistribute"
    /\ Len(dist.log) = 1
    /\ m_vecEntities # << >>


\* C14: a grid generator with layout (Lx, Ly, Lz) answers exactly
\* Lx*Ly*Lz calls with b_is_retry = false; the call number k (from 0)
\* returns the cell (k mod Lx, (k div Lx) mod Ly, k div (Lx*Ly)) of the grid
\* laid around the centre with the spacing of each axis, the cells returned
\* are distinct cells of the layout, and the call after the last cell fails
\* with the exhaustion error.  With layout (2,1,1), centre (0,0,0) and
\* distances (1,0,0) the calls return (0.5,0,0), then (-0.5,0,0), then fail.
C14_GridCellsInOrder ==
    (generator.pc = "created" /\ generator.node.method = "grid") =>
        LET L == generator.node.layout
            D == generator.node.distances
            N == L[1] * L[2] * L[3]
            Cell(k) == << k % L[1], (k \div L[1]) % L[2], k \div (L[1] * L[2]) >>
            Position(c) ==
                [a \in 1..3 |-> generator.node.center[a]
                                    + ((L[a] - 1) * D[a]) \div 2 - c[a] * D[a]]
        IN  /\ Len(generator.calls) <= N + 1
            /\ \A k \in 1..Len(generator.calls) :
                   IF k <= N
                   THEN /\ generator.calls[k].err = NoError
                        /\ generator.calls[k].value = Position(Cell(k - 1))
                   ELSE generator.calls[k].err.kind = "GridExhausted"
            /\ generator.gen.placed = IF Len(generator.calls) <= N
                                      THEN Len(generator.calls) ELSE N
            /\ \A k \in 0..(N - 1) :
                   /\ \A a \in 1..3 : Cell(k)[a] \in 0..(L[a] - 1)
                   /\ \A j \in 0..(N - 1) : j # k => Cell(j) # Cell(k)
            /\ generator.node = GridGenerator(Zero3, << 2, 1, 1 >>, << 2, 0, 0 >>)
                   => \A k \in 1..Len(generator.calls) :
                          /\ k = 1 => generator.calls[k].value = << 1, 0, 0 >>
                          /\ k = 2 => generator.calls[k].value = << -1, 0, 0 >>
                          /\ k = 3 => generator.calls[k].err # NoError

C14_Witness ==
    /\ generator.pc = "created"
    /\ generator.node = GridGenerator(<< -2, 0, 2 >>, << 2, 2, 2 >>, << 2, 4, 2 >>)
    /\ Len(generator.calls) = 9
    /\ generator.calls[8].value = << -3, -2, 1 >>
    /\ generator.calls[9].err.kind = "GridExhausted"
    /\ generator.retry # << >>


\* C15: a grid generator called with b_is_retry = true fails and leaves its
\* counter of placed entities as it was; so a Distribute whose position
\* generator is a grid fails as soon as a copy collides, whatever max_trials
\* is: after the rejection the call has failed or makes one more pass, and
\* that pass ends with the error of the grid and adds nothing.
C15_GridFailsOnCollision ==
    /\ [](dist.posGen.method = "grid" /\ dist.rejections > 0
             => \/ dist.pc = "failed"
                \/ dist.pc = "loop" /\ dist.bRetry)
    /\ [][(dist.pc = "loop" /\ dist.posGen.method = "grid" /\ dist.bRetry)
             => /\ dist'.pc = "failed"
                /\ dist'.error.kind = "GridRetry"
                /\ exception' = dist'.error
                /\ dist'.posGen = dist.posGen
                /\ dist'.accepted = dist.accepted
                /\ m_vecEntities' = m_vecEntities
                /\ engineEntities' = engineEntities]_vars

C15_Witness ==
    /\ dist.pc = "failed"
    /\ dist.error.kind = "GridRetry"
    /\ dist.posGen.method = "grid"
    /\ dist.posGen.placed = 2
    /\ dist.unMaxTrials = 1
    /\ Len(dist.accepted) = 1


\* C16: a uniform generator whose min is above its max on some axis is
\* refused when it is created, with the configuration error, before a value
\* is drawn or an entity of the directive is built; with min <= max on
\* every axis the creation succeeds.
C16_UniformMinAboveMaxRefused ==
    dist.pc # "idle" =>
        LET MinAboveMax(g) ==
                g.method = "uniform" /\ \E a \in 1..3 : g.min[a] > g.max[a]
        IN  IF MinAboveMax(dist.posGen) \/ MinAboveMax(dist.oriGen)
            THEN /\ dist.pc = "failed"
                 /\ dist.error.kind = "UniformMinMax"
                 /\ exception = dist.error
                 /\ dist.log = << >>
                 /\ dist.accepted = << >>
                 /\ NewEntities = {}
            ELSE dist.error.kind # "UniformMinMax"

C16_Witness ==
    /\ dist.pc = "failed"
    /\ dist.posGen = UniformGenerator(<<-1, 0, 1>>, <<3, 0, 0>>)
    /\ dist.unQuantity = 2
    /\ m_vecEntities # << >>


\* C17: Reset sets the simulation clock to zero and neither adds nor
\* removes an entity: the flat, root and controllable collections and the
\* type/ID mapping are after it what they were before; it is idempotent: on
\* a space whose clock is zero, as a Reset leaves it, a Reset changes
\* nothing.
C17_ResetKeepsRegistry ==
    [][Reset =>
         /\ m_unSimulationClock' = 0
         /\ UNCHANGED << m_vecEntities, m_vecRootEntities,
                         m_vecControllableEntities,
                         m_mapEntitiesPerTypePerId >>
         /\ m_unSimulationClock = 0 =>
                UNCHANGED << m_unSimulationClock, m_vecEntities,
                             m_vecRootEntities, m_vecControllableEntities,
                             m_mapEntitiesPerTypePerId, heap,
                             engineEntities >>]_vars

C17_Witness ==
    /\ phase = "running"
    /\ updatePc = 0
    /\ phaseLog # << >>
    /\ updatesSinceReset = 0
    /\ m_unSimulationClock = 0
    /\ m_vecControllableEntities # << >>
    /\ Len(m_vecEntities) > Len(m_vecRootEntities)


\* C18: Destroy terminates and leaves the root collection and the flat
\* collection empty.  Its loop ends because every pass, which removes the
\* last root entity, leaves one root fewer.
C18_DestroyEmptiesRegistry ==
    /\ phase = "destroyed" =>
           /\ m_vecRootEntities = << >>
           /\ m_vecEntities = << >>
    /\ (phase \in {"running", "failed"} /\ m_vecRootEntities # << >>) =>
           LET last == m_vecRootEntities[Len(m_vecRootEntities)]
               s == RemoveEntityOperation(SpaceNow(""), last)
           IN  /\ Len(s.vecRoots) = Len(m_vecRootEntities) - 1
               /\ Len(s.vecEntities) < Len(m_vecEntities)

C18_Witness ==
    /\ phase = "destroyed"
    /\ phaseLog # << >>
    /\ { "robot", "light", "body" } \subseteq DOMAIN m_mapEntitiesPerTypePerId
    /\ m_vecEntities = << >>


\* C19: the indices of the registry agree: an entity is in the type/ID
\* mapping exactly when it is in the flat collection, the root collection
\* holds exactly the entities of the flat collection that have no parent,
\* and every entity is a root or hangs below exactly one root.
C19_IndicesAgree ==
    LET flat   == Range(m_vecEntities)
        roots  == Range(m_vecRootEntities)
        mapped == UNION { m_mapEntitiesPerTypePerId[t] :
                              t \in DOMAIN m_mapEntitiesPerTypePerId }
    IN  /\ mapped = flat
        /\ \A id \in flat :
               /\ heap[id].type \in DOMAIN m_mapEntitiesPerTypePerId
               /\ \A t \in DOMAIN m_mapEntitiesPerTypePerId :
                      id \in m_mapEntitiesPerTypePerId[t] <=> t = heap[id].type
        /\ roots = { id \in flat : heap[id].parent = NoParent }
        /\ Len(m_vecEntities) = Cardinality(flat)
        /\ Len(m_vecRootEntities) = Cardinality(roots)
        /\ \A id \in flat :
               heap[id].parent = NoParent \/ heap[id].parent \in flat
        /\ \A id \in flat :
               /\ RootOf(heap, id) \in roots
               /\ id \in roots <=> RootOf(heap, id) = id

C19_Witness ==
    /\ phase = "running"
    /\ Len(m_vecRootEntities) = 2
    /\ Len(m_vecEntities) > 3
    /\ \E t \in DOMAIN m_mapEntitiesPerTypePerId :
          m_mapEntitiesPerTypePerId[t] = {}
    /\ \E id \in Range(m_vecEntities) : RootOf(heap, id) # id


\* the entity d hangs below the entity c: c is its parent or an ancestor
\* of its parent
RECURSIVE Below(_, _, _)
Below(h, d, c) ==
    /\ h[d].parent # NoParent
    /\ \/ h[d].parent = c
       \/ Below(h, h[d].parent, c)

\* the entities found in some index of the registry
Indexed(vecEntities, vecRoots, vecControllable, map) ==
    Range(vecEntities) \cup Range(vecRoots) \cup Range(vecControllable)
        \cup UNION { map[t] : t \in DOMAIN map }

\* C20: removing a composable entity removes the components attached to
\* it, and theirs in turn, before the composable itself: when the
\* components have been dealt with none of them is left in the flat
\* collection, the type/ID mapping, the root collection or the controllable
\* collection while the composable is still registered, and after the
\* operation the composable is gone as well.  So it is for every composable
\* registered and for every step that takes a root entity away.
C20_RemoveTakesComponentsFirst ==
    /\ [](\A c \in Range(m_vecEntities) :
             IsComposable(heap[c].type) =>
                 LET s   == SpaceNow("")
                     mid == RemoveComponents(s, ChildrenOf(s, c))
                     fin == RemoveEntityOperation(s, c)
                     below == { d \in Range(m_vecEntities) : Below(heap, d, c) }
                 IN  /\ below \cap Indexed(mid.vecEntities, mid.vecRoots,
                                           mid.vecControllable, mid.map) = {}
                     /\ c \in Range(mid.vecEntities)
                     /\ (below \cup {c})
                            \cap Indexed(fin.vecEntities, fin.vecRoots,
                                         fin.vecControllable, fin.map) = {}
                     /\ Range(fin.vecEntities)
                           = Range(m_vecEntities) \ (below \cup {c}))
    /\ [][\A r \in Range(m_vecRootEntities) \ Range(m_vecRootEntities') :
             \A d \in Range(m_vecEntities) :
                 Below(heap, d, r) =>
                     d \notin Indexed(m_vecEntities', m_vecRootEntities',
                                      m_vecControllableEntities',
                                      m_mapEntitiesPerTypePerId')]_vars

C20_Witness ==
    /\ phase = "running"
    /\ m_vecEntities # << >>
    /\ { "robot", "tags", "tag", "controller" }
           \subseteq DOMAIN m_mapEntitiesPerTypePerId
    /\ m_mapEntitiesPerTypePerId["robot"] = {}
    /\ m_mapEntitiesPerTypePerId["tag"] = {}
    /\ m_mapEntitiesPerTypePerId["controller"] = {}
    /\ m_vecControllableEntities = << >>


\* C21: GetEntitiesByType(tag) returns the sub-mapping of the tag when the
\* tag is registered and fails with the type-not-found error when it is
\* not; either way the type/ID mapping is after the lookup what it was
\* before: a failed lookup enters nothing for the tag.
C21_LookupByType ==
    [][GetEntitiesByTypeCall =>
         /\ m_mapEntitiesPerTypePerId' = m_mapEntitiesPerTypePerId
         /\ IF lookup'.type \in DOMAIN m_mapEntitiesPerTypePerId
            THEN /\ lookup'.err = NoError
                 /\ lookup'.found = m_mapEntitiesPerTypePerId[lookup'.type]
            ELSE /\ lookup'.err.kind = "TypeNotFound"
                 /\ lookup'.err.id = lookup'.type
                 /\ exception' = lookup'.err
                 /\ lookup'.type \notin DOMAIN m_mapEntitiesPerTypePerId']_vars

C21_Witness ==
    /\ lookup.err.kind = "TypeNotFound"
    /\ lookup.type = "light"
    /\ m_mapEntitiesPerTypePerId # << >>
    /\ \E t \in DOMAIN m_mapEntitiesPerTypePerId :
          m_mapEntitiesPerTypePerId[t] = {}


C24_RootIsHoused ==
    /\ \A e \in EngineIds : \A id \in engineEntities[e] :
           id \in DOMAIN heap /\ heap[id].parent = NoParent
    /\ (binderCall.called /\ BinderRootKept) =>
           LET c_entity == binderCall.entity
               pcToAdd  == binderCall.root
               added    == UNION { binderCall.after[e] \ binderCall.before[e] :
                                       e \in EngineIds }
           IN  /\ IsEmbodied(heap[c_entity].type)
               /\ heap[pcToAdd].parent = NoParent
               /\ c_entity = pcToAdd \/ Below(heap, c_entity, pcToAdd)
               /\ heap[c_entity].parent = NoParent <=> pcToAdd = c_entity
               /\ binderCall.pos = heap[c_entity].pos
               /\ Range(binderCall.potential) = MatchingEngines(heap[c_entity].pos)
               /\ pcToAdd # c_entity => heap[pcToAdd].pos # binderCall.pos
               /\ added \subseteq {pcToAdd}
               /\ binderCall.error = NoError => added = {pcToAdd}

C24_Witness ==
    /\ binderCall.called
    /\ binderCall.error = NoError
    /\ binderCall.entity # binderCall.root
    /\ binderCall.root \in engineEntities["dyn_b"]
    /\ heap[binderCall.root].type = "robot"
    /\ binderCall.pos = << 3, 0, 0 >>


\* C25: during Init every item placed by hand is created and added to the
\* space before the first distribute directive is executed, wherever the
\* items stand in the tree, and the directives then run in the order of the
\* document; so the collision check of a distributed entity sees every
\* entity placed by hand: no distributed body is accepted at the place of
\* another body of its engine.
C25_ManualBeforeDistribute ==
    LET tree   == initFrame.tree
        log    == initFrame.log
        manual == { k \in 1..Len(tree) : ~tree[k].distribute }
        placed == { tree[k].item.id : k \in manual }
        begun  == \E k \in 1..Len(log) : tree[log[k]].distribute
    IN  /\ \A j \in 1..Len(log) : \A k \in (j + 1)..Len(log) :
               /\ ~(tree[log[j]].distribute /\ ~tree[log[k]].distribute)
               /\ tree[log[j]].distribute = tree[log[k]].distribute
                      => log[j] < log[k]
        /\ (begun \/ dist.pc # "idle") =>
               /\ manual \subseteq Range(log)
               /\ placed \subseteq Range(m_vecRootEntities)
        /\ initFrame.pc = "done" =>
               /\ Range(log) = 1..Len(tree)
               /\ Len(log) = Len(tree)
        /\ \A r \in Range(m_vecRootEntities) \ placed :
               \A other \in Range(m_vecRootEntities) \ {r} :
                   ~(/\ heap[r].pos = heap[other].pos
                     /\ HousingEngines(r) \cap HousingEngines(other) # {})

C25_Witness ==
    /\ initFrame.pc = "done"
    /\ Len(initFrame.tree) = 3
    /\ initFrame.tree[1].distribute
    /\ initFrame.log = << 2, 3, 1 >>
    /\ Len(m_vecRootEntities) = 3

-----------------------------------------------------------------------------
\* the anchor the i-th instance refers to
AnchorOf(te, i) == te.anchors[te.m_vecInstances[i].anchor]

\* the operations that end with the loop of UpdateComponents: Init calls it
\* once the instances are made, the parent calls it at every step
Updating == { "Init", "UpdateComponents" }

\* C26 as stated: UpdateComponents leaves the tag of every instance whose
\* anchor is disabled at the pose it had before the call.
C26_DisabledAnchorKeepsPose ==
    tagEquipped.op \in Updating =>
        \A i \in 1..Len(tagEquipped.m_vecInstances) :
            ~AnchorOf(tagEquipped, i).enabled =>
                tagEquipped.m_vecInstances[i].pose = tagEquipped.before[i]

\* C26 as amended: UpdateComponents moves the tag of every instance whose
\* tag is itself enabled to the pose of its anchor composed with the offset
\* of the instance, whether the anchor is enabled or not, and leaves a
\* disabled tag at the pose it had before the call.
C26_EnabledTagFollowsAnchor ==
    tagEquipped.op \in Updating =>
        /\ Len(tagEquipped.before) = Len(tagEquipped.m_vecInstances)
        /\ \A i \in 1..Len(tagEquipped.m_vecInstances) :
              LET s_instance == tagEquipped.m_vecInstances[i]
              IN  s_instance.pose =
                      IF s_instance.tagEnabled
                      THEN TagPose(s_instance, AnchorOf(tagEquipped, i).pose)
                      ELSE tagEquipped.before[i]

\* an enabled tag on a disabled anchor has just been moved, and a disabled
\* tag on an anchor that went elsewhere has just been left behind
C26_Witness ==
    /\ tagEquipped.op = "UpdateComponents"
    /\ \E i \in 1..Len(tagEquipped.m_vecInstances) :
          /\ tagEquipped.m_vecInstances[i].tagEnabled
          /\ ~AnchorOf(tagEquipped, i).enabled
          /\ tagEquipped.m_vecInstances[i].pose # tagEquipped.before[i]
    /\ \E j \in 1..Len(tagEquipped.m_vecInstances) :
          /\ ~tagEquipped.m_vecInstances[j].tagEnabled
          /\ tagEquipped.m_vecInstances[j].pose
                 # TagPose(tagEquipped.m_vecInstances[j],
                           AnchorOf(tagEquipped, j).pose)

=============================================================================
